---- MODULE Spec2Model ----
(***************************************************************************)
(* Model of the untrusted-code pipeline of the Excel AI Engine:            *)
(*   - backend.py, analyze_uploaded_data: code cleaner, manual safety      *)
(*     scan, exec under captured stdout, result classification;            *)
(*   - main.py, the REPL loop: fence removal, empty check, forbidden       *)
(*     pattern search, exec / eval and printing of the result.             *)
(* Strings are sequences of one-character strings, so that strip,          *)
(* splitlines, startswith, the substring tests, replace and basename are   *)
(* computed the way Python computes them.                                  *)
(* Four specifications share the variables:                                *)
(*   Spec        one request after the other, any model output;            *)
(*   SpecIso     one request after the other, with code that binds names   *)
(*               and code that reads them, and two different uploads;      *)
(*   SpecUpload  the loop of backend.py over uploaded files and sheets;    *)
(*   SpecConc    /analyze requests in flight on one event loop, sharing    *)
(*               sys.stdout.                                               *)
(***************************************************************************)
EXTENDS Integers, Sequences, FiniteSets, TLC

VARIABLES
    app,          \* which program serves the request: "backend", "repl", "none"
    pc,           \* position inside the handler / loop body
    text,         \* response.text, the raw model output
    ai_code,      \* the ai_code variable
    gate,         \* decision of the safety scan: "none", "admit", "reject"
    ran,          \* TRUE once ai_code was handed to exec or eval
    print_output, \* what the executed code printed
    local_scope,  \* names the executed code bound (backend local_scope)
    result,       \* main.py: the value eval returned
    exc,          \* the exception the executed code raised, if any
    response,     \* what the caller / the console receives
    excel_files,  \* backend.py: the uploaded workbooks of the request
    safe_globals, \* backend.py: the globals mapping built by the handler
    repl_safe_globals, \* main.py: the module-level safe_globals
    load,         \* backend.py: position of the loop over files and sheets
    sys_stdout,   \* the process-wide sys.stdout
    loop,         \* the request the event loop is running, 0 when it is idle
    handlers      \* the /analyze requests in flight on the event loop

pipeVars ==
    <<app, pc, text, ai_code, gate, ran, print_output, local_scope, result, exc,
      response>>

envVars == <<excel_files, safe_globals, repl_safe_globals>>

concVars == <<sys_stdout, loop, handlers>>

vars == <<pipeVars, envVars, load, concVars>>

-----------------------------------------------------------------------------
(* Python string primitives over character sequences *)

IsSpace(c) == c \in {" ", "\n", "\r", "\t"}

SetMin(S) == CHOOSE m \in S : \A x \in S : m <= x
SetMax(S) == CHOOSE m \in S : \A x \in S : m >= x

\* positions of s that hold something else than whitespace
Inked(s) == {i \in 1..Len(s) : ~IsSpace(s[i])}

lstrip(s) == IF Inked(s) = {} THEN <<>> ELSE SubSeq(s, SetMin(Inked(s)), Len(s))

rstrip(s) == IF Inked(s) = {} THEN <<>> ELSE SubSeq(s, 1, SetMax(Inked(s)))

strip(s) == rstrip(lstrip(s))

\* str.splitlines(): "\n", "\r" and "\r\n" end a line, and there is no empty
\* last line.  LineEnds holds the last position of every line terminator.
LineEnds(s) ==
    {i \in 1..Len(s) :
        \/ s[i] = "\n"
        \/ s[i] = "\r" /\ ~(i < Len(s) /\ s[i + 1] = "\n")}

\* the k-th smallest element of a set of numbers
Nth(S, k) == CHOOSE x \in S : Cardinality({y \in S : y < x}) = k - 1

\* first position of the terminator that ends at position i
TerminatorStart(s, i) ==
    IF s[i] = "\n" /\ i > 1 /\ s[i - 1] = "\r" THEN i - 1 ELSE i

splitlines(s) ==
    LET ends == LineEnds(s)
        n == Cardinality(ends)
        last == IF n = 0 THEN 0 ELSE SetMax(ends)
        count == IF last < Len(s) THEN n + 1 ELSE n
    IN [k \in 1..count |->
           LET from == IF k = 1 THEN 1 ELSE Nth(ends, k - 1) + 1
               to == IF k <= n THEN TerminatorStart(s, Nth(ends, k)) - 1
                     ELSE Len(s)
           IN SubSeq(s, from, to)]

\* "\n".join(lines)
RECURSIVE join(_)
join(lines) ==
    IF lines = <<>> THEN <<>>
    ELSE IF Len(lines) = 1 THEN lines[1]
    ELSE lines[1] \o <<"\n">> \o join(Tail(lines))

startswith(s, p) == Len(s) >= Len(p) /\ SubSeq(s, 1, Len(p)) = p

\* positions where sub occurs in s
Occurrences(s, sub) ==
    {i \in 1..(Len(s) - Len(sub) + 1) : SubSeq(s, i, i + Len(sub) - 1) = sub}

\* the Python test  sub in s
Contains(s, sub) == Occurrences(s, sub) # {}

\* s.replace(old, new): left to right, non-overlapping (old is not empty)
RECURSIVE replace(_, _, _)
replace(s, old, new) ==
    IF Occurrences(s, old) = {} THEN s
    ELSE LET i == SetMin(Occurrences(s, old))
         IN SubSeq(s, 1, i - 1) \o new
                \o replace(SubSeq(s, i + Len(old), Len(s)), old, new)

\* os.path.basename(p): what follows the last "/"
basename(p) ==
    LET slashes == {i \in 1..Len(p) : p[i] = "/"}
    IN IF slashes = {} THEN p ELSE SubSeq(p, SetMax(slashes) + 1, Len(p))

-----------------------------------------------------------------------------
(* String literals, one character per element *)

\* the backquote character, which a TLA+ string cannot hold
backtick == "backquote"

\* Literals of backend.py
import_directive == <<"i", "m", "p", "o", "r", "t", " ">>
fence == <<backtick, backtick, backtick>>
w_os_dot == <<"o", "s", ".">>
w_sys == <<"s", "y", "s">>
w_subprocess == <<"s", "u", "b", "p", "r", "o", "c", "e", "s", "s">>
w_open == <<"o", "p", "e", "n", "(">>
w_exec == <<"e", "x", "e", "c", "(">>
w_dunder == <<"_", "_">>
builtins_phrase == <<"s", "a", "f", "e", "_", "g", "l", "o", "b", "a", "l", "s", "[", "'", "_", "_", "b", "u", "i", "l", "t", "i", "n", "s", "_", "_", "'", "]">>
plot_marker == <<"P", "l", "o", "t", " ", "s", "a", "v", "e", "d", " ", "t", "o", " ", "p", "l", "o", "t", "s", "/">>
plot_prefix == <<"P", "l", "o", "t", " ", "s", "a", "v", "e", "d", " ", "t", "o", " ">>
no_result_text == <<"C", "o", "d", "e", " ", "e", "x", "e", "c", "u", "t", "e", "d", ",", " ", "b", "u", "t", " ", "n", "o", " ", "r", "e", "s", "u", "l", "t", " ", "w", "a", "s", " ", "r", "e", "t", "u", "r", "n", "e", "d", ".">>
unsafe_detail == <<"U", "n", "s", "a", "f", "e", " ", "o", "p", "e", "r", "a", "t", "i", "o", "n", " ", "d", "e", "t", "e", "c", "t", "e", "d", ".">>
detail_head == <<"E", "r", "r", "o", "r", " ", "e", "x", "e", "c", "u", "t", "i", "n", "g", " ", "A", "I", " ", "c", "o", "d", "e", ":", " ">>
detail_sep == <<":", " ">>
detail_code == <<".", " ", "A", "I", " ", "C", "o", "d", "e", ":", " ">>
n_result_df == <<"r", "e", "s", "u", "l", "t", "_", "d", "f">>
n_result_value == <<"r", "e", "s", "u", "l", "t", "_", "v", "a", "l", "u", "e">>

\* Literals of main.py
fence_python == <<backtick, backtick, backtick, "p", "y", "t", "h", "o", "n">>
p_import == <<"i", "m", "p", "o", "r", "t">>
p_sys_dot == <<"s", "y", "s", ".">>
plt_dot == <<"p", "l", "t", ".">>
sns_dot == <<"s", "n", "s", ".">>

\* Names bound in the execution environment
n_builtins == <<"_", "_", "b", "u", "i", "l", "t", "i", "n", "s", "_", "_">>
n_pd == <<"p", "d">>
n_np == <<"n", "p">>
n_plt == <<"p", "l", "t">>
n_sns == <<"s", "n", "s">>
n_df == <<"d", "f">>
n_df_projects == <<"d", "f", "_", "p", "r", "o", "j", "e", "c", "t", "s">>
n_df_e == <<"d", "f", "_", "e">>

\* Python syntax and messages used by the interpreter
print_open == <<"p", "r", "i", "n", "t", "(", "\"">>
print_close == <<"\"", ")">>
assign_op == <<" ", "=", " ">>
global_kw == <<"g", "l", "o", "b", "a", "l", " ">>
from_kw == <<"f", "r", "o", "m", " ">>
attr_S == <<".", "S">>
attr_S_max == <<".", "S", ".", "m", "a", "x", "(", ")">>
attr_close == <<".", "c", "l", "o", "s", "e", "(", ")">>
NameError == <<"N", "a", "m", "e", "E", "r", "r", "o", "r">>
name_open == <<"n", "a", "m", "e", " ", "'">>
name_close == <<"'", " ", "i", "s", " ", "n", "o", "t", " ", "d", "e", "f", "i", "n", "e", "d">>
ImportError == <<"I", "m", "p", "o", "r", "t", "E", "r", "r", "o", "r">>
import_msg == <<"_", "_", "i", "m", "p", "o", "r", "t", "_", "_", " ", "n", "o", "t", " ", "f", "o", "u", "n", "d">>
SyntaxError == <<"S", "y", "n", "t", "a", "x", "E", "r", "r", "o", "r">>
syntax_msg == <<"i", "n", "v", "a", "l", "i", "d", " ", "s", "y", "n", "t", "a", "x">>
IndentationError == <<"I", "n", "d", "e", "n", "t", "a", "t", "i", "o", "n", "E", "r", "r", "o", "r">>
indent_msg == <<"u", "n", "e", "x", "p", "e", "c", "t", "e", "d", " ", "i", "n", "d", "e", "n", "t">>
AttributeError == <<"A", "t", "t", "r", "i", "b", "u", "t", "e", "E", "r", "r", "o", "r">>
attr_msg == <<"o", "b", "j", "e", "c", "t", " ", "h", "a", "s", " ", "n", "o", " ", "a", "t", "t", "r", "i", "b", "u", "t", "e">>
none_text == <<"N", "o", "n", "e">>

\* Lines a model output is made of
L_print_plot == <<"p", "r", "i", "n", "t", "(", "\"", "P", "l", "o", "t", " ", "s", "a", "v", "e", "d", " ", "t", "o", " ", "p", "l", "o", "t", "s", "/", "x", ".", "p", "n", "g", "\"", ")">>
L_print_hi == <<"p", "r", "i", "n", "t", "(", "\"", "h", "i", "\"", ")">>
L_print_hi_cr == <<"p", "r", "i", "n", "t", "(", "\"", "h", "i", "\"", ")", "\r">>
L_print_phrase == <<"p", "r", "i", "n", "t", "(", "\"", "s", "a", "f", "e", "_", "g", "l", "o", "b", "a", "l", "s", "[", "'", "_", "_", "b", "u", "i", "l", "t", "i", "n", "s", "_", "_", "'", "]", "\"", ")">>
L_result_df == <<"r", "e", "s", "u", "l", "t", "_", "d", "f", " ", "=", " ", "d", "f", "_", "e">>
L_result_value == <<"r", "e", "s", "u", "l", "t", "_", "v", "a", "l", "u", "e", " ", "=", " ", "d", "f", "_", "p", "r", "o", "j", "e", "c", "t", "s", ".", "S", ".", "m", "a", "x", "(", ")">>
L_expr == <<"d", "f", "_", "p", "r", "o", "j", "e", "c", "t", "s", ".", "S", ".", "m", "a", "x", "(", ")">>
L_df == <<"d", "f">>
L_df_S == <<"d", "f", ".", "S">>
L_import == <<"i", "m", "p", "o", "r", "t", " ", "o", "s">>
L_from == <<"f", "r", "o", "m", " ", "o", "s", " ", "i", "m", "p", "o", "r", "t", " ", "p", "a", "t", "h">>
L_fence_python == <<backtick, backtick, backtick, "p", "y", "t", "h", "o", "n">>
L_plt == <<"p", "l", "t", ".", "c", "l", "o", "s", "e", "(", ")">>
L_space == <<" ">>
L_sys == <<"s", "y", "s">>
L_open == <<"o", "p", "e", "n", "(", "x", ")">>

-----------------------------------------------------------------------------
(* backend.py: the code cleaner and the manual safety scan *)

\* the loop of the code cleaner: which lines are appended to cleaned_lines
RECURSIVE cleaned_lines(_)
cleaned_lines(lines) ==
    IF lines = <<>> THEN <<>>
    ELSE LET line == Head(lines)
             stripped_line == strip(line)
         IN IF startswith(stripped_line, import_directive)
                THEN cleaned_lines(Tail(lines))
            ELSE IF startswith(stripped_line, fence)
                THEN cleaned_lines(Tail(lines))
            ELSE <<line>> \o cleaned_lines(Tail(lines))

\* as cleaned_lines, but only the first import or fence line is left out
cleaned_lines_DropOnce(lines) ==
    LET hits == {i \in 1..Len(lines) :
                    \/ startswith(strip(lines[i]), import_directive)
                    \/ startswith(strip(lines[i]), fence)}
    IN IF hits = {} THEN lines
       ELSE SubSeq(lines, 1, SetMin(hits) - 1)
                \o SubSeq(lines, SetMin(hits) + 1, Len(lines))

CodeCleaner_DropOnce(code) ==
    strip(join(cleaned_lines_DropOnce(splitlines(code))))

\* backend.py: the code cleaner, from ai_code to the new ai_code
CodeCleaner(code) == strip(join(cleaned_lines(splitlines(code))))

dangerous_words == {w_os_dot, w_sys, w_subprocess, w_open, w_exec, w_dunder}

\* the condition of the manual safety scan
UnsafeDetected(code) ==
    /\ \E word \in dangerous_words : Contains(code, word)
    /\ ~Contains(code, builtins_phrase)

-----------------------------------------------------------------------------
(* main.py: fence removal and the forbidden pattern search *)

ReplClean(raw) ==
    strip(replace(replace(strip(raw), fence_python, <<>>), fence, <<>>))

\* the alternatives of the regular expression, each a literal string
FORBIDDEN_PATTERNS ==
    {p_import, w_os_dot, p_sys_dot, w_subprocess, w_open, w_exec, w_dunder}

ForbiddenFound(code) == \E p \in FORBIDDEN_PATTERNS : Contains(code, p)

PlotMode(code) == Contains(code, plt_dot) \/ Contains(code, sns_dot)

-----------------------------------------------------------------------------
(* Values of the executed code, and the binding environment *)

DataFrame(rows) == [type |-> "DataFrame", rows |-> rows, num |-> 0]
Series(rows)    == [type |-> "Series", rows |-> rows, num |-> 0]
IntValue(n)     == [type |-> "int", rows |-> <<>>, num |-> n]
NoneValue       == [type |-> "NoneType", rows |-> <<>>, num |-> 0]
ModuleValue     == [type |-> "module", rows |-> <<>>, num |-> 0]
BuiltinValue    == [type |-> "builtin", rows |-> <<>>, num |-> 0]
DictValue       == [type |-> "dict", rows |-> <<>>, num |-> 0]

BigRows == 21

\* the Salary column of the three-row table and of the long table
SalaryRows == <<50000, 120000, 75000>>
LongRows   == [i \in 1..BigRows |-> i]

\* the names of the __builtins__ mapping
safe_builtins ==
    {<<"p", "r", "i", "n", "t">>,
     <<"l", "e", "n">>,
     <<"r", "o", "u", "n", "d">>,
     <<"a", "b", "s">>,
     <<"s", "u", "m">>,
     <<"m", "i", "n">>,
     <<"m", "a", "x">>,
     <<"s", "t", "r">>,
     <<"i", "n", "t">>,
     <<"f", "l", "o", "a", "t">>}

\* backend.py: the fixed keys, and one table per sheet of the uploaded
\* workbook df.xlsx (sheets "projects" and "e")
BackendGlobals ==
    [n \in {n_builtins, n_pd, n_np, n_plt, n_sns, n_df_projects, n_df_e} |->
        IF n = n_builtins THEN DictValue
        ELSE IF n = n_df_projects THEN DataFrame(SalaryRows)
        ELSE IF n = n_df_e THEN DataFrame(LongRows)
        ELSE ModuleValue]

\* main.py: safe_globals
ReplGlobals ==
    [n \in {n_builtins, n_df, n_df_projects, n_pd, n_np, n_plt, n_sns} |->
        IF n = n_builtins THEN DictValue
        ELSE IF n = n_df_projects THEN DataFrame(SalaryRows)
        ELSE IF n = n_df THEN DataFrame(LongRows)
        ELSE ModuleValue]

-----------------------------------------------------------------------------
(* What exec and eval do with a code string *)

NoExc == [type |-> <<>>, msg |-> <<>>]
Raise(t, m) == [type |-> t, msg |-> m]

IsIdentChar(c) ==
    c \in {"a", "b", "c", "d", "e", "f", "g", "h", "i", "j", "k", "l", "m",
           "n", "o", "p", "q", "r", "s", "t", "u", "v", "w", "x", "y", "z",
           "A", "B", "C", "D", "E", "F", "G", "H", "I", "J", "K", "L", "M",
           "N", "O", "P", "Q", "R", "S", "T", "U", "V", "W", "X", "Y", "Z",
           "0", "1", "2", "3", "4", "5", "6", "7", "8", "9", "_"}

\* the identifier an expression starts with
LeadingName(e) ==
    LET stops == {i \in 1..Len(e) : ~IsIdentChar(e[i])}
    IN IF stops = {} THEN e ELSE SubSeq(e, 1, SetMin(stops) - 1)

\* Series.max()
SeqMax(s) == SetMax({s[i] : i \in 1..Len(s)})

\* name resolution: locals, then globals, then __builtins__
Resolvable(name, globals, locals) ==
    name \in DOMAIN locals \/ name \in DOMAIN globals \/ name \in safe_builtins

Lookup(name, globals, locals) ==
    IF name \in DOMAIN locals THEN locals[name]
    ELSE IF name \in DOMAIN globals THEN globals[name]
    ELSE BuiltinValue

\* value and exception of an expression: [val, exc]
EvalExpr(e, globals, locals) ==
    LET name == LeadingName(e)
        rest == SubSeq(e, Len(name) + 1, Len(e))
    IN IF name = <<>>
           THEN [val |-> NoneValue, exc |-> Raise(SyntaxError, syntax_msg)]
       ELSE IF ~Resolvable(name, globals, locals)
           THEN [val |-> NoneValue,
                 exc |-> Raise(NameError, name_open \o name \o name_close)]
       ELSE LET v == Lookup(name, globals, locals)
            IN IF rest = <<>> THEN [val |-> v, exc |-> NoExc]
               ELSE IF rest = attr_S /\ v.type = "DataFrame"
                   THEN [val |-> Series(v.rows), exc |-> NoExc]
               ELSE IF rest = attr_S_max /\ v.type = "DataFrame" /\ v.rows # <<>>
                   THEN [val |-> IntValue(SeqMax(v.rows)), exc |-> NoExc]
               ELSE IF rest = attr_close /\ v.type = "module"
                   THEN [val |-> NoneValue, exc |-> NoExc]
               ELSE [val |-> NoneValue, exc |-> Raise(AttributeError, attr_msg)]

IsPrintCall(s) ==
    /\ startswith(s, print_open)
    /\ Len(s) >= Len(print_open) + Len(print_close)
    /\ SubSeq(s, Len(s) - Len(print_close) + 1, Len(s)) = print_close

PrintArg(s) == SubSeq(s, Len(print_open) + 1, Len(s) - Len(print_close))

\* position of the first " = " of a statement, 0 when there is none
AssignAt(s) ==
    IF Contains(s, assign_op) THEN SetMin(Occurrences(s, assign_op)) ELSE 0

Bind(locals, name, v) ==
    [n \in DOMAIN locals \cup {name} |-> IF n = name THEN v ELSE locals[n]]

\* one statement run in the state st = [stdout, locals, exc, globals,
\* declared]; a name declared global is bound in the globals mapping
ExecStmt(s, globals, st) ==
    IF s = <<>> THEN st
    ELSE IF startswith(s, import_directive) \/ startswith(s, from_kw)
        THEN [st EXCEPT !.exc = Raise(ImportError, import_msg)]
    ELSE IF startswith(s, global_kw)
        THEN [st EXCEPT !.declared =
                            @ \cup {strip(SubSeq(s, Len(global_kw) + 1, Len(s)))}]
    ELSE IF IsPrintCall(s)
        THEN [st EXCEPT !.stdout = @ \o PrintArg(s) \o <<"\n">>]
    ELSE IF AssignAt(s) > 0
        THEN LET target == SubSeq(s, 1, AssignAt(s) - 1)
                 r == EvalExpr(SubSeq(s, AssignAt(s) + Len(assign_op), Len(s)),
                               globals, st.locals)
             IN IF r.exc # NoExc THEN [st EXCEPT !.exc = r.exc]
                ELSE IF target \in st.declared
                    THEN [st EXCEPT !.globals = Bind(st.globals, target, r.val)]
                ELSE [st EXCEPT !.locals = Bind(st.locals, target, r.val)]
    ELSE LET r == EvalExpr(s, globals, st.locals)
         IN [st EXCEPT !.exc = r.exc]

\* the statements of one line: its parts between ";"
RECURSIVE SplitSemi(_)
SplitSemi(s) ==
    IF Occurrences(s, <<";">>) = {} THEN <<strip(s)>>
    ELSE LET i == SetMin(Occurrences(s, <<";">>))
         IN <<strip(SubSeq(s, 1, i - 1))>> \o SplitSemi(SubSeq(s, i + 1, Len(s)))

RECURSIVE Statements(_)
Statements(lines) ==
    IF lines = <<>> THEN <<>>
    ELSE SplitSemi(Head(lines)) \o Statements(Tail(lines))

RECURSIVE RunStmts(_, _, _)
RunStmts(stmts, globals, st) ==
    IF stmts = <<>> \/ st.exc # NoExc THEN st
    ELSE RunStmts(Tail(stmts), globals, ExecStmt(Head(stmts), st.globals, st))

\* compilation fails before anything runs
UnexpectedIndent(code) ==
    \E i \in 1..Len(splitlines(code)) :
        LET line == splitlines(code)[i]
        IN strip(line) # <<>> /\ IsSpace(line[1])

StrayFence(code) ==
    \E i \in 1..Len(Statements(splitlines(code))) :
        startswith(Statements(splitlines(code))[i], <<backtick>>)

\* "name is used prior to global declaration": a statement before the
\* global statement reads or binds the declared name
GlobalAfterUse(code) ==
    LET stmts == Statements(splitlines(code))
        StmtNames(s) ==
            IF startswith(s, global_kw) THEN {}
            ELSE IF AssignAt(s) > 0
                THEN {SubSeq(s, 1, AssignAt(s) - 1),
                      LeadingName(SubSeq(s, AssignAt(s) + Len(assign_op), Len(s)))}
            ELSE {LeadingName(s)}
    IN \E j \in 1..Len(stmts) :
           /\ startswith(stmts[j], global_kw)
           /\ \E i \in 1..(j - 1) :
                  strip(SubSeq(stmts[j], Len(global_kw) + 1, Len(stmts[j])))
                      \in StmtNames(stmts[i])

EmptyRun ==
    [stdout |-> <<>>, locals |-> <<>>, exc |-> NoExc, globals |-> <<>>,
     declared |-> {}]

\* exec(code, globals, {}): what was printed, the locals, the exception and
\* the globals mapping as the code leaves it
Exec(code, globals) ==
    IF UnexpectedIndent(code)
        THEN [EmptyRun EXCEPT !.exc = Raise(IndentationError, indent_msg),
                              !.globals = globals]
    ELSE IF StrayFence(code) \/ GlobalAfterUse(code)
        THEN [EmptyRun EXCEPT !.exc = Raise(SyntaxError, syntax_msg),
                              !.globals = globals]
    ELSE RunStmts(Statements(splitlines(code)), globals,
                  [EmptyRun EXCEPT !.globals = globals])

\* eval takes one expression: no second line, no ";", no assignment, no import
IsSingleExpression(code) ==
    /\ Len(splitlines(code)) = 1
    /\ Len(Statements(splitlines(code))) = 1
    /\ AssignAt(code) = 0
    /\ ~startswith(code, import_directive)
    /\ ~startswith(code, from_kw)
    /\ ~startswith(code, global_kw)
    /\ ~startswith(code, <<backtick>>)

\* eval(code, globals, {}): [stdout, val, exc]
Eval(code, globals) ==
    IF ~IsSingleExpression(code)
        THEN [stdout |-> <<>>, val |-> NoneValue,
              exc |-> Raise(SyntaxError, syntax_msg)]
    ELSE IF IsPrintCall(code)
        THEN [stdout |-> PrintArg(code) \o <<"\n">>, val |-> NoneValue,
              exc |-> NoExc]
    ELSE LET r == EvalExpr(code, globals, <<>>)
         IN [stdout |-> <<>>, val |-> r.val, exc |-> r.exc]

-----------------------------------------------------------------------------
(* Rendering of results *)

HeadLimit == 20
ReplHeadLimit == 10

\* DataFrame.head(n)
head(rows, n) == SubSeq(rows, 1, IF Len(rows) < n THEN Len(rows) ELSE n)

TextResult(t) == [kind |-> "text", text |-> t, headers |-> FALSE, rows |-> <<>>]

\* tabulate(frame, headers="keys", tablefmt="psql"): the header line and one
\* line per row of the frame
tabulate(rows) == [kind |-> "table", text |-> <<>>, headers |-> TRUE, rows |-> rows]

Digits == <<"0", "1", "2", "3", "4", "5", "6", "7", "8", "9">>

RECURSIVE IntToStr(_)
IntToStr(n) ==
    IF n < 10 THEN <<Digits[n + 1]>>
    ELSE Append(IntToStr(n \div 10), Digits[(n % 10) + 1])

\* str(value); the text of a frame shows its rows
str(v) ==
    IF v.type = "int" THEN TextResult(IntToStr(v.num))
    ELSE IF v.type = "NoneType" THEN TextResult(none_text)
    ELSE IF v.type \in {"DataFrame", "Series"}
        THEN [kind |-> "repr", text |-> <<>>, headers |-> TRUE, rows |-> v.rows]
    ELSE [kind |-> "repr", text |-> <<>>, headers |-> FALSE, rows |-> <<>>]

NonePath == <<"None">>

Classify_TableFirst(output, scope) ==
    LET out == strip(output)
    IN IF n_result_df \in DOMAIN scope
           THEN [result |-> tabulate(head(scope[n_result_df].rows, HeadLimit)),
                 is_plot |-> FALSE, plot_path |-> NonePath]
       ELSE IF Contains(out, plot_marker)
           THEN [result |-> TextResult(out), is_plot |-> TRUE,
                 plot_path |-> basename(strip(replace(out, plot_prefix, <<>>)))]
       ELSE IF n_result_value \in DOMAIN scope
           THEN [result |-> str(scope[n_result_value]),
                 is_plot |-> FALSE, plot_path |-> NonePath]
       ELSE [result |-> TextResult(IF out # <<>> THEN out ELSE no_result_text),
             is_plot |-> FALSE, plot_path |-> NonePath]

\* backend.py: from the captured output and local_scope to
\* result_output, is_plot, plot_path
Classify(output, scope) ==
    LET out == strip(output)
    IN IF Contains(out, plot_marker)
           THEN [result |-> TextResult(out), is_plot |-> TRUE,
                 plot_path |-> basename(strip(replace(out, plot_prefix, <<>>)))]
       ELSE IF n_result_df \in DOMAIN scope
           THEN LET result_df == scope[n_result_df]
                IN [result |->
                        IF result_df.type = "DataFrame"
                            THEN tabulate(head(result_df.rows, HeadLimit))
                        ELSE IF result_df.type = "Series"
                            THEN tabulate(head(result_df.rows, HeadLimit))
                        ELSE str(result_df),
                    is_plot |-> FALSE, plot_path |-> NonePath]
       ELSE IF n_result_value \in DOMAIN scope
           THEN [result |-> str(scope[n_result_value]),
                 is_plot |-> FALSE, plot_path |-> NonePath]
       ELSE [result |-> TextResult(IF out # <<>> THEN out ELSE no_result_text),
             is_plot |-> FALSE, plot_path |-> NonePath]

ErrorDetail_NoCode(e, code) ==
    detail_head \o e.type \o detail_sep \o e.msg \o detail_code

\* the detail of the HTTP 500 raised for a fault of the executed code
ErrorDetail(e, code) ==
    detail_head \o e.type \o detail_sep \o e.msg \o detail_code \o code

\* main.py: what the loop prints for the value of eval
ReplRender(v) ==
    IF v.type = "DataFrame" THEN tabulate(head(v.rows, ReplHeadLimit))
    ELSE IF v.type = "Series" THEN tabulate(v.rows)
    ELSE str(v)

-----------------------------------------------------------------------------
(* backend.py: the uploaded workbooks and the globals mapping built from them *)

\* Path(filename).stem: the final component without its last suffix
stem(filename) ==
    LET name == basename(filename)
        dots == Occurrences(name, <<".">>)
    IN IF dots # {} /\ SetMax(dots) > 1 /\ SetMax(dots) < Len(name)
           THEN SubSeq(name, 1, SetMax(dots) - 1)
           ELSE name

\* re.sub(r'\W|^(?=\d)', '_', name).strip(): every non-word character
\* becomes "_" and a "_" is put in front of a leading digit; an empty
\* outcome becomes "sheet"
sanitize_name(name) ==
    LET body == [i \in 1..Len(name) |->
                    IF IsIdentChar(name[i]) THEN name[i] ELSE "_"]
        s == strip(IF name # <<>> /\ (\E d \in DOMAIN Digits : Digits[d] = name[1])
                       THEN <<"_">> \o body
                       ELSE body)
    IN IF s = <<>> THEN <<"s", "h", "e", "e", "t">> ELSE s

\* the keys safe_globals is created with
FixedGlobals ==
    [n \in {n_builtins, n_pd, n_np, n_plt, n_sns} |->
        IF n = n_builtins THEN DictValue ELSE ModuleValue]

var_name(excel_file, sheet_name) ==
    sanitize_name(stem(excel_file.filename)) \o <<"_">> \o sanitize_name(sheet_name)

\* the body of the loop over sheet_names: safe_globals[var_name] = df
LoadSheet(globals, excel_file, sheet) ==
    Bind(globals, var_name(excel_file, sheet.name), DataFrame(sheet.rows))

RECURSIVE LoadSheets(_, _, _)
LoadSheets(globals, excel_file, sheets) ==
    IF sheets = <<>> THEN globals
    ELSE LoadSheets(LoadSheet(globals, excel_file, Head(sheets)), excel_file,
                    Tail(sheets))

\* the loop over excel_files; a workbook that cannot be read ends it
RECURSIVE LoadFiles(_, _)
LoadFiles(globals, files) ==
    IF files = <<>> \/ ~Head(files).ok THEN globals
    ELSE LoadFiles(LoadSheets(globals, Head(files), Head(files).sheets),
                   Tail(files))

\* no HTTP 400: there is a file, and every file is a readable workbook
UploadOk(files) == files # <<>> /\ \A i \in 1..Len(files) : files[i].ok

\* the workbook df.xlsx with the sheets "projects" and "e"
MainUpload ==
    <<[filename |-> <<"d", "f", ".", "x", "l", "s", "x">>, ok |-> TRUE,
       sheets |-> <<[name |-> <<"p", "r", "o", "j", "e", "c", "t", "s">>, rows |-> SalaryRows],
                    [name |-> <<"e">>, rows |-> LongRows]>>]>>

-----------------------------------------------------------------------------
(* The model outputs considered *)

MaxLines == 2

Catalog ==
    {L_print_plot, L_print_hi, L_print_hi_cr, L_print_phrase, L_result_df,
     L_result_value, L_expr, L_df, L_df_S, L_import, L_from, L_fence_python,
     L_plt, L_space, L_sys, L_open}

RawTexts ==
    {join(ls) : ls \in UNION {[1..k -> Catalog] : k \in 0..MaxLines}}

-----------------------------------------------------------------------------
(* State machine *)

MaxRequests == 2

Requests == 1..MaxRequests

\* sys.__stdout__, and the io.StringIO() of request r
StdoutOriginal == [kind |-> "__stdout__", of |-> 0]
output_stream(r) == [kind |-> "StringIO", of |-> r]

\* a request that has not reached the handler yet
NewHandler ==
    [at |-> "new", ai_code |-> <<>>, captured |-> <<>>, exc |-> NoExc,
     before |-> [kind |-> "none", of |-> 0], status |-> "none"]


NoResponse ==
    [status |-> "none", result |-> TextResult(<<>>), executed_code |-> <<>>,
     is_plot |-> FALSE, plot_path |-> NonePath, detail |-> <<>>]

Init ==
    /\ app = "none"
    /\ pc = "idle"
    /\ text = <<>>
    /\ ai_code = <<>>
    /\ gate = "none"
    /\ ran = FALSE
    /\ print_output = <<>>
    /\ local_scope = <<>>
    /\ result = NoneValue
    /\ exc = NoExc
    /\ response = NoResponse
    /\ excel_files = <<>>
    /\ safe_globals = <<>>
    /\ repl_safe_globals = ReplGlobals
    /\ load = [status |-> "none", i |-> 0, j |-> 0]
    /\ sys_stdout = StdoutOriginal
    /\ loop = 0
    /\ handlers = [r \in Requests |-> NewHandler]

\* backend.py 82-197: safe_globals is created and filled from the uploaded
\* files (HTTP 400 when there is none or one cannot be read), the model
\* answers, ai_code = response.text.strip()
BackendGenerateFrom(uploads, texts) ==
    /\ pc = "idle"
    /\ app' = "backend"
    /\ \E files \in uploads :
        /\ excel_files' = files
        /\ safe_globals' = LoadFiles(FixedGlobals, files)
        /\ IF UploadOk(files)
               THEN /\ \E raw \in texts :
                        /\ text' = raw
                        /\ ai_code' = strip(raw)
                    /\ pc' = "generated"
                    /\ UNCHANGED response
               ELSE /\ pc' = "done"
                    /\ response' = [NoResponse EXCEPT !.status = "400"]
                    /\ UNCHANGED <<text, ai_code>>
    /\ UNCHANGED <<gate, ran, print_output, local_scope, result, exc>>
    /\ UNCHANGED <<repl_safe_globals, load, concVars>>

BackendGenerate == BackendGenerateFrom({MainUpload}, RawTexts)

\* backend.py 200-210
BackendClean ==
    /\ app = "backend" /\ pc = "generated"
    /\ ai_code' = CodeCleaner(ai_code)
    /\ pc' = "cleaned"
    /\ UNCHANGED <<app, text, gate, ran, print_output, local_scope, result, exc,
                   response>>
    /\ UNCHANGED <<envVars, load, concVars>>

BackendSafetyScan_NoRaise ==
    /\ app = "backend" /\ pc = "cleaned"
    /\ gate' = IF UnsafeDetected(ai_code) THEN "reject" ELSE "admit"
    /\ pc' = "admitted"
    /\ UNCHANGED <<app, text, ai_code, ran, print_output, local_scope, result,
                   exc, response>>
    /\ UNCHANGED <<envVars, load, concVars>>

\* backend.py 213-217
BackendSafetyScan ==
    /\ app = "backend" /\ pc = "cleaned"
    /\ IF UnsafeDetected(ai_code)
           THEN /\ gate' = "reject"
                /\ pc' = "done"
                /\ response' = [NoResponse EXCEPT !.status = "403",
                                                  !.detail = unsafe_detail]
           ELSE /\ gate' = "admit"
                /\ pc' = "admitted"
                /\ UNCHANGED response
    /\ UNCHANGED <<app, text, ai_code, ran, print_output, local_scope, result, exc>>
    /\ UNCHANGED <<envVars, load, concVars>>

\* backend.py 221-230 and 268-272: exec under the captured stdout; a fault
\* of the code leaves the handler as HTTP 500
BackendExec ==
    /\ app = "backend" /\ pc = "admitted"
    /\ LET run == Exec(ai_code, safe_globals)
       IN /\ ran' = TRUE
          /\ safe_globals' = run.globals
          /\ print_output' = run.stdout
          /\ local_scope' = run.locals
          /\ exc' = run.exc
          /\ IF run.exc # NoExc
                 THEN /\ pc' = "done"
                      /\ response' = [NoResponse EXCEPT
                                         !.status = "500",
                                         !.detail = ErrorDetail(run.exc, ai_code)]
                 ELSE /\ pc' = "executed"
                      /\ UNCHANGED response
    /\ UNCHANGED <<app, text, ai_code, gate, result>>
    /\ UNCHANGED <<excel_files, repl_safe_globals, load, concVars>>

\* backend.py 232-266
BackendInterpret ==
    /\ app = "backend" /\ pc = "executed"
    /\ LET c == Classify(print_output, local_scope)
       IN response' = [status |-> "200", result |-> c.result,
                       executed_code |-> ai_code, is_plot |-> c.is_plot,
                       plot_path |-> c.plot_path, detail |-> <<>>]
    /\ pc' = "done"
    /\ UNCHANGED <<app, text, ai_code, gate, ran, print_output, local_scope,
                   result, exc>>
    /\ UNCHANGED <<envVars, load, concVars>>

\* main.py 158-161
ReplGenerateFrom(texts) ==
    /\ pc = "idle"
    /\ \E raw \in texts :
        /\ text' = raw
        /\ ai_code' = ReplClean(raw)
    /\ app' = "repl"
    /\ pc' = "generated"
    /\ UNCHANGED <<gate, ran, print_output, local_scope, result, exc, response>>
    /\ UNCHANGED <<envVars, load, concVars>>

ReplGenerate == ReplGenerateFrom(RawTexts)

\* main.py 163-165
ReplEmptyCheck ==
    /\ app = "repl" /\ pc = "generated"
    /\ IF ai_code = <<>>
           THEN /\ pc' = "done"
                /\ response' = [NoResponse EXCEPT !.status = "empty"]
           ELSE /\ pc' = "cleaned"
                /\ UNCHANGED response
    /\ UNCHANGED <<app, text, ai_code, gate, ran, print_output, local_scope,
                   result, exc>>
    /\ UNCHANGED <<envVars, load, concVars>>

\* main.py 167-169
ReplScan ==
    /\ app = "repl" /\ pc = "cleaned"
    /\ IF ForbiddenFound(ai_code)
           THEN /\ gate' = "reject"
                /\ pc' = "done"
                /\ response' = [NoResponse EXCEPT !.status = "blocked",
                                                  !.executed_code = ai_code]
           ELSE /\ gate' = "admit"
                /\ pc' = "admitted"
                /\ UNCHANGED response
    /\ UNCHANGED <<app, text, ai_code, ran, print_output, local_scope, result, exc>>
    /\ UNCHANGED <<envVars, load, concVars>>

\* main.py 173-175 and 189-195: exec of plotting code
ReplExec ==
    /\ app = "repl" /\ pc = "admitted"
    /\ PlotMode(ai_code)
    /\ LET run == Exec(ai_code, repl_safe_globals)
       IN /\ ran' = TRUE
          /\ repl_safe_globals' = run.globals
          /\ print_output' = run.stdout
          /\ exc' = run.exc
          /\ response' =
                IF run.exc # NoExc
                    THEN [NoResponse EXCEPT
                             !.status = "error",
                             !.detail = run.exc.type \o detail_sep \o run.exc.msg]
                    ELSE [NoResponse EXCEPT !.status = "ok"]
    /\ pc' = "done"
    /\ UNCHANGED <<app, text, ai_code, gate, local_scope, result>>
    /\ UNCHANGED <<excel_files, safe_globals, load, concVars>>

\* main.py 177-195: eval of a data expression, and the printing of its value
ReplEval ==
    /\ app = "repl" /\ pc = "admitted"
    /\ ~PlotMode(ai_code)
    /\ LET run == Eval(ai_code, repl_safe_globals)
       IN /\ ran' = TRUE
          /\ print_output' = run.stdout
          /\ exc' = run.exc
          /\ result' = run.val
          /\ response' =
                IF run.exc # NoExc
                    THEN [NoResponse EXCEPT
                             !.status = "error",
                             !.detail = run.exc.type \o detail_sep \o run.exc.msg]
                    ELSE [NoResponse EXCEPT !.status = "ok",
                                            !.result = ReplRender(run.val)]
    /\ pc' = "done"
    /\ UNCHANGED <<app, text, ai_code, gate, local_scope>>
    /\ UNCHANGED <<envVars, load, concVars>>

\* the response is returned / the loop goes back to its prompt: the
\* handler's variables are gone, the module-level safe_globals of main.py
\* stays as the executed code left it
NextRequest ==
    /\ pc = "done"
    /\ app' = "none"
    /\ pc' = "idle"
    /\ text' = <<>>
    /\ ai_code' = <<>>
    /\ gate' = "none"
    /\ ran' = FALSE
    /\ print_output' = <<>>
    /\ local_scope' = <<>>
    /\ result' = NoneValue
    /\ exc' = NoExc
    /\ response' = NoResponse
    /\ excel_files' = <<>>
    /\ safe_globals' = <<>>
    /\ UNCHANGED <<repl_safe_globals, load, concVars>>

Next ==
    \/ BackendGenerate
    \/ BackendClean
    \/ BackendSafetyScan
    \/ BackendExec
    \/ BackendInterpret
    \/ ReplGenerate
    \/ ReplEmptyCheck
    \/ ReplScan
    \/ ReplExec
    \/ ReplEval
    \/ NextRequest

Spec == Init /\ [][Next]_vars

-----------------------------------------------------------------------------
(* Requests one after the other, with code that binds names and code that *)
(* reads them                                                              *)

\* "global g; g = df_projects; plt.close()", "g",
\* "x = df_projects; plt.close()", "x", "t_q"
IsoCatalog ==
    {global_kw \o <<"g", ";", " ", "g">> \o assign_op \o n_df_projects
         \o <<";", " ">> \o L_plt,
     <<"g">>,
     <<"x">> \o assign_op \o n_df_projects \o <<";", " ">> \o L_plt,
     <<"x">>,
     <<"t", "_", "q">>}

IsoTexts ==
    {join(ls) : ls \in UNION {[1..k -> IsoCatalog] : k \in 0..MaxLines}}

\* the upload of the workbook df.xlsx, or of t.xlsx with the sheet "q"
IsoUploads ==
    {MainUpload,
     <<[filename |-> <<"t", ".", "x", "l", "s", "x">>, ok |-> TRUE,
        sheets |-> <<[name |-> <<"q">>, rows |-> SalaryRows]>>]>>}

IsoBackendGenerate == BackendGenerateFrom(IsoUploads, IsoTexts)

IsoReplGenerate == ReplGenerateFrom(IsoTexts)

NextIso ==
    \/ IsoBackendGenerate
    \/ BackendClean
    \/ BackendSafetyScan
    \/ BackendExec
    \/ BackendInterpret
    \/ IsoReplGenerate
    \/ ReplEmptyCheck
    \/ ReplScan
    \/ ReplExec
    \/ ReplEval
    \/ NextRequest

SpecIso == Init /\ [][NextIso]_vars

-----------------------------------------------------------------------------
(* backend.py 97-141: the loop over the uploaded files and their sheets *)

MaxFiles == 2
MaxSheets == 2

\* the files df.xlsx and sys.xlsx with some of the sheets "a b", "a_b" and
\* "2024", each sheet with rows of its own; the sheet names of a workbook
\* differ from each other; the last workbook is a file pandas cannot read
Workbooks ==
    LET FileNames == {<<"d", "f", ".", "x", "l", "s", "x">>,
                      <<"s", "y", "s", ".", "x", "l", "s", "x">>}
        Sheets ==
            {[name |-> <<"a", " ", "b">>, rows |-> <<1>>],
             [name |-> <<"a", "_", "b">>, rows |-> <<2>>],
             [name |-> <<"2", "0", "2", "4">>, rows |-> <<3>>]}
    IN {[filename |-> f, ok |-> TRUE, sheets |-> ss] :
           f \in FileNames,
           ss \in {s \in UNION {[1..k -> Sheets] : k \in 1..MaxSheets} :
                      \A i, j \in 1..Len(s) : i # j => s[i].name # s[j].name}}
       \cup {[filename |-> <<"d", "f", ".", "x", "l", "s", "x">>, ok |-> FALSE,
              sheets |-> <<>>]}

Uploads == UNION {[1..k -> Workbooks] : k \in 0..MaxFiles}

\* the handler is entered with excel_files; safe_globals holds its fixed keys
InitUpload ==
    /\ app = "none"
    /\ pc = "idle"
    /\ text = <<>>
    /\ ai_code = <<>>
    /\ gate = "none"
    /\ ran = FALSE
    /\ print_output = <<>>
    /\ local_scope = <<>>
    /\ result = NoneValue
    /\ exc = NoExc
    /\ response = NoResponse
    /\ excel_files \in Uploads
    /\ safe_globals = FixedGlobals
    /\ repl_safe_globals = ReplGlobals
    /\ load = [status |-> "start", i |-> 0, j |-> 0]
    /\ sys_stdout = StdoutOriginal
    /\ loop = 0
    /\ handlers = [r \in Requests |-> NewHandler]

\* backend.py 97-98
CheckFiles ==
    /\ load.status = "start"
    /\ IF excel_files = <<>>
           THEN /\ load' = [load EXCEPT !.status = "400"]
                /\ response' = [NoResponse EXCEPT !.status = "400"]
           ELSE /\ load' = [status |-> "file", i |-> 1, j |-> 0]
                /\ UNCHANGED response
    /\ UNCHANGED <<app, pc, text, ai_code, gate, ran, print_output, local_scope,
                   result, exc>>
    /\ UNCHANGED <<envVars, concVars>>

\* where the loops go after the sheets of file i
AfterFile(i) ==
    IF i < Len(excel_files) THEN [status |-> "file", i |-> i + 1, j |-> 0]
    ELSE [status |-> "loaded", i |-> i, j |-> 0]

\* backend.py 100-109 and 137-141: the file is read and its sheet names
\* are taken; a file that cannot be read ends the request with HTTP 400
ReadFile ==
    /\ load.status = "file"
    /\ LET excel_file == excel_files[load.i]
       IN IF ~excel_file.ok
              THEN /\ load' = [load EXCEPT !.status = "400"]
                   /\ response' = [NoResponse EXCEPT !.status = "400"]
              ELSE /\ load' = IF excel_file.sheets = <<>> THEN AfterFile(load.i)
                              ELSE [load EXCEPT !.status = "sheet", !.j = 1]
                   /\ UNCHANGED response
    /\ UNCHANGED <<app, pc, text, ai_code, gate, ran, print_output, local_scope,
                   result, exc>>
    /\ UNCHANGED <<envVars, concVars>>

\* backend.py 111-121: one sheet is read and bound
ReadSheet ==
    /\ load.status = "sheet"
    /\ LET excel_file == excel_files[load.i]
       IN /\ safe_globals' =
                LoadSheet(safe_globals, excel_file, excel_file.sheets[load.j])
          /\ load' = IF load.j < Len(excel_file.sheets)
                         THEN [load EXCEPT !.j = load.j + 1]
                         ELSE AfterFile(load.i)
    /\ UNCHANGED <<pipeVars, excel_files, repl_safe_globals, concVars>>

NextUpload == CheckFiles \/ ReadFile \/ ReadSheet

SpecUpload == InitUpload /\ [][NextUpload]_vars

-----------------------------------------------------------------------------
(* backend.py: /analyze requests in flight on one event loop.  The handler *)
(* is a coroutine: it runs without interruption from one await to the      *)
(* next, and its only await is the read of an uploaded file.               *)

\* model outputs: a print, a plot marker, a print followed by the read of an
\* unbound name, and code the scan rejects
ConcTexts ==
    {L_print_hi, L_print_plot, L_print_hi \o <<";", " ">> \o L_df, L_sys}

\* the event loop can run request r: it is idle, or r has not awaited
CanRun(r) == loop \in {0, r}

\* backend.py 77-102: the handler runs up to await excel_file.read()
Accept(r) ==
    /\ CanRun(r) /\ handlers[r].at = "new"
    /\ handlers' = [handlers EXCEPT ![r].at = "awaiting"]
    /\ loop' = 0
    /\ UNCHANGED <<sys_stdout, pipeVars, envVars, load>>

\* backend.py 102-217: the read is over; the tables are bound, the model
\* answers, the code is cleaned and scanned
Resume(r) ==
    /\ CanRun(r) /\ handlers[r].at = "awaiting"
    /\ \E raw \in ConcTexts :
        LET code == CodeCleaner(strip(raw))
        IN IF UnsafeDetected(code)
               THEN /\ handlers' = [handlers EXCEPT ![r].at = "done",
                                                    ![r].ai_code = code,
                                                    ![r].status = "403"]
                    /\ loop' = 0
               ELSE /\ handlers' = [handlers EXCEPT ![r].at = "admitted",
                                                    ![r].ai_code = code]
                    /\ loop' = r
    /\ UNCHANGED <<sys_stdout, pipeVars, envVars, load>>

Redirect_Await(r) ==
    /\ CanRun(r) /\ handlers[r].at = "admitted"
    /\ handlers' = [handlers EXCEPT ![r].at = "redirected",
                                    ![r].before = sys_stdout]
    /\ sys_stdout' = output_stream(r)
    /\ loop' = 0
    /\ UNCHANGED <<pipeVars, envVars, load>>

\* backend.py 221-226: output_stream = io.StringIO(); sys.stdout =
\* output_stream
Redirect(r) ==
    /\ CanRun(r) /\ handlers[r].at = "admitted"
    /\ handlers' = [handlers EXCEPT ![r].at = "redirected",
                                    ![r].before = sys_stdout]
    /\ sys_stdout' = output_stream(r)
    /\ loop' = r
    /\ UNCHANGED <<pipeVars, envVars, load>>

\* print writes to the stream that sys.stdout names when it is called
Written(h, sink, out) ==
    [q \in Requests |->
        IF sink = output_stream(q) THEN [h[q] EXCEPT !.captured = @ \o out]
        ELSE h[q]]

ExecRestore_NoFinally(r) ==
    /\ CanRun(r) /\ handlers[r].at = "redirected"
    /\ LET run == Exec(handlers[r].ai_code, BackendGlobals)
       IN /\ handlers' = [Written(handlers, sys_stdout, run.stdout) EXCEPT
                             ![r].at = "restored", ![r].exc = run.exc]
          /\ sys_stdout' = IF run.exc # NoExc THEN sys_stdout ELSE StdoutOriginal
    /\ loop' = r
    /\ UNCHANGED <<pipeVars, envVars, load>>

\* backend.py 227-230: try: exec(ai_code, safe_globals, local_scope)
\* finally: sys.stdout = sys.__stdout__
ExecRestore(r) ==
    /\ CanRun(r) /\ handlers[r].at = "redirected"
    /\ LET run == Exec(handlers[r].ai_code, BackendGlobals)
       IN handlers' = [Written(handlers, sys_stdout, run.stdout) EXCEPT
                          ![r].at = "restored", ![r].exc = run.exc]
    /\ sys_stdout' = StdoutOriginal
    /\ loop' = r
    /\ UNCHANGED <<pipeVars, envVars, load>>

\* backend.py 232-272: the response is built and returned, or the fault of
\* the code is raised as HTTP 500
Respond(r) ==
    /\ CanRun(r) /\ handlers[r].at = "restored"
    /\ handlers' = [handlers EXCEPT
                       ![r].at = "done",
                       ![r].status = IF handlers[r].exc # NoExc THEN "500"
                                     ELSE "200"]
    /\ loop' = 0
    /\ UNCHANGED <<sys_stdout, pipeVars, envVars, load>>

NextConc ==
    \E r \in Requests :
        \/ Accept(r)
        \/ Resume(r)
        \/ Redirect(r)
        \/ ExecRestore(r)
        \/ Respond(r)

SpecConc == Init /\ [][NextConc]_vars

-----------------------------------------------------------------------------
(* Properties *)

\* the request has passed the normaliser
Normalised == pc \in {"cleaned", "admitted", "executed", "done"}

\* C1: the safety scan is evaluated before any exec or eval, and a code
\* string the scan rejects is never handed to exec or eval.
C1_GateBeforeExec ==
    ran => /\ gate = "admit"
           /\ app = "backend" => ~UnsafeDetected(ai_code)
           /\ app = "repl" => ~ForbiddenFound(ai_code)

\* a rejected request that ended without running its code
C1_Witness == gate = "reject" /\ pc = "done" /\ ~ran /\ ai_code # <<>>

ForbiddenTokens == {w_os_dot, w_sys, w_subprocess, w_open, w_exec, w_dunder}

HasForbiddenToken(code) == \E token \in ForbiddenTokens : Contains(code, token)

\* C2: a normalised code string that holds a forbidden token anywhere is
\* rejected by the scan and never executed.
C2_DenylistSound ==
    (gate # "none" /\ HasForbiddenToken(ai_code)) => (gate = "reject" /\ ~ran)

\* C3: an empty normalised code string ends the request with the "empty code"
\* error: it is neither scanned nor executed, and no success is returned.
C3_EmptyRejected ==
    (Normalised /\ ai_code = <<>>) =>
        /\ gate = "none"
        /\ ~ran
        /\ pc = "done" => response.status = "empty"

import_inside == <<" ", "i", "m", "p", "o", "r", "t", " ">>

\* an import statement in any form: "import x" or "from x import y", at the
\* start of a line or after ";"
HasImportStatement(code) ==
    \E i \in 1..Len(Statements(splitlines(code))) :
        LET s == Statements(splitlines(code))[i]
        IN \/ startswith(s, import_directive)
           \/ startswith(s, from_kw) /\ Contains(s, import_inside)

\* C4: the normalised code holds no import statement and no fence marker.
C4_NoImportNoFence ==
    Normalised => ~HasImportStatement(ai_code) /\ ~Contains(ai_code, fence)

\* backend.py 196-210: the strip of the raw text, then the code cleaner
Normalize(raw) == CodeCleaner(strip(raw))

\* no line of the text is an import line or a fence line
FreeOfFenceImport(raw) ==
    cleaned_lines(splitlines(strip(raw))) = splitlines(strip(raw))

\* C5, as claimed: normalising twice gives what normalising once gives, and a
\* text free of fence and import lines is left as it is up to the outer strip.
C5_FixedPointUpToStrip ==
    (app = "backend" /\ pc = "cleaned") =>
        /\ Normalize(ai_code) = ai_code
        /\ FreeOfFenceImport(text) => ai_code = strip(text)

\* C5, amended: normalising twice gives what normalising once gives, and a
\* text free of fence and import lines keeps its lines up to the outer strip,
\* each line terminator written as "\n".
C5_Idempotent ==
    (app = "backend" /\ pc = "cleaned") =>
        /\ Normalize(ai_code) = ai_code
        /\ FreeOfFenceImport(text) => ai_code = join(splitlines(strip(text)))

\* a text whose import line was dropped and whose "\r\n" was rewritten
C5_Witness ==
    /\ app = "backend" /\ pc = "cleaned"
    /\ text = L_print_hi_cr \o <<"\n">> \o L_import
    /\ ai_code = L_print_hi

IsPrefix(p, s) == Len(p) <= Len(s) /\ SubSeq(s, 1, Len(p)) = p

\* C6: the result is classified in a fixed order: the chart marker in the
\* captured output, else result_df, else result_value, else the captured
\* output or the placeholder; is_plot is true in the first case only.
C6_ClassificationOrder ==
    (app = "backend" /\ pc = "done" /\ response.status = "200") =>
        LET out == strip(print_output)
            marker == Contains(out, plot_marker)
            hasDf == n_result_df \in DOMAIN local_scope
            hasValue == n_result_value \in DOMAIN local_scope
        IN /\ response.is_plot = marker
           /\ marker => response.result = TextResult(out)
           /\ (~marker /\ hasDf) =>
                 /\ response.result.kind = "table"
                 /\ IsPrefix(response.result.rows, local_scope[n_result_df].rows)
           /\ (~marker /\ ~hasDf /\ hasValue) =>
                 response.result = str(local_scope[n_result_value])
           /\ (~marker /\ ~hasDf /\ ~hasValue /\ out # <<>>) =>
                 response.result = TextResult(out)
           /\ (~marker /\ ~hasDf /\ ~hasValue /\ out = <<>>) =>
                 response.result = TextResult(no_result_text)

\* the marker was printed and result_df was bound: the chart wins
C6_Witness ==
    /\ app = "backend" /\ pc = "done" /\ response.status = "200"
    /\ Contains(print_output, plot_marker)
    /\ n_result_df \in DOMAIN local_scope
    /\ response.is_plot

\* C7: when the code printed a line "Plot saved to <relative-path>", among
\* other lines or not, is_plot is true and plot_path is the basename of
\* <relative-path> and nothing else.
C7_MarkerProtocol ==
    (app = "backend" /\ pc = "done" /\ response.status = "200") =>
        \A i \in 1..Len(splitlines(print_output)) :
            LET line == splitlines(print_output)[i]
            IN startswith(line, plot_prefix) =>
                  /\ response.is_plot
                  /\ response.plot_path =
                        basename(SubSeq(line, Len(plot_prefix) + 1, Len(line)))

\* C8: admitted code that is a single value-producing expression (no
\* assignment, no print) gives that value, as text, as the result.
C8_ExpressionValue ==
    (pc = "done" /\ ran /\ exc = NoExc
        /\ IsSingleExpression(ai_code) /\ ~IsPrintCall(ai_code)) =>
        LET globals == IF app = "backend" THEN BackendGlobals ELSE ReplGlobals
            v == EvalExpr(ai_code, globals, <<>>).val
        IN v.type = "int" => response.result = TextResult(IntToStr(v.num))

\* C9: a tabular result of n rows is rendered with its headers and exactly
\* min(n, 20) data rows, on every path that renders a table.
C9_RowBound ==
    (pc = "done" /\ response.result.kind = "table") =>
        LET n == IF app = "backend" THEN Len(local_scope[n_result_df].rows)
                 ELSE Len(result.rows)
        IN /\ response.result.headers
           /\ Len(response.result.rows) = IF n < 20 THEN n ELSE 20

quote == <<"'">>

EndsWith(s, e) == Len(s) >= Len(e) /\ SubSeq(s, Len(s) - Len(e) + 1, Len(s)) = e

\* the names the statements of the code read first and nothing binds
UndefinedNames(code, globals) ==
    {n \in {LET s == Statements(splitlines(code))[i]
            IN LeadingName(IF AssignAt(s) > 0
                               THEN SubSeq(s, AssignAt(s) + Len(assign_op), Len(s))
                               ELSE s) :
                i \in 1..Len(Statements(splitlines(code)))} :
        n # <<>> /\ ~Resolvable(n, globals, <<>>)}

\* C10: a fault of the executed code ends the request as HTTP 500 whose detail
\* gives the exception type, its message (naming the undefined identifier of
\* a NameError) and the code that was executed; code without a forbidden
\* token is not rejected by the scan.
C10_FaultPropagation ==
    /\ (app = "backend" /\ ran /\ exc # NoExc) =>
          /\ pc = "done"
          /\ response.status = "500"
          /\ IsPrefix(detail_head \o exc.type \o detail_sep \o exc.msg,
                      response.detail)
          /\ EndsWith(response.detail, detail_code \o ai_code)
          /\ exc.type = NameError =>
                \E n \in UndefinedNames(ai_code, BackendGlobals) :
                    Contains(response.detail, quote \o n \o quote)
    /\ (app = "backend" /\ gate # "none" /\ ~HasForbiddenToken(ai_code)) =>
          gate = "admit"
    /\ (app = "backend" /\ ran /\ exc = NoExc) => response.status # "500"

\* the table name df is not bound in the backend: the code is admitted, run,
\* and reported as a NameError
C10_Witness ==
    /\ app = "backend" /\ pc = "done" /\ ai_code = L_df
    /\ gate = "admit" /\ ran
    /\ exc.type = NameError
    /\ response.status = "500"

\* the globals mapping a request would get if it were built for it alone
FreshGlobals ==
    IF app = "backend" THEN LoadFiles(FixedGlobals, excel_files) ELSE ReplGlobals

\* C11: the binding environment is built fresh for each request: the code of
\* a request is handed the freshly built globals, and code that reads a name
\* which only an earlier request bound fails with a NameError for that name.
C11_Isolation ==
    /\ (app = "backend" /\ pc = "admitted") => safe_globals = FreshGlobals
    /\ (app = "repl" /\ pc = "admitted") => repl_safe_globals = FreshGlobals
    /\ (ran /\ pc = "done" /\ ai_code # <<>> /\ LeadingName(ai_code) = ai_code
            /\ ~Resolvable(ai_code, FreshGlobals, <<>>)) =>
          exc = Raise(NameError, name_open \o ai_code \o name_close)

\* the loaded sheets: file i, sheet j
LoadedSheets ==
    UNION {{<<i, j>> : j \in 1..Len(excel_files[i].sheets)} :
              i \in 1..Len(excel_files)}

TableNames == DOMAIN safe_globals \ DOMAIN FixedGlobals

\* C14: once the files are loaded, no key of the globals mapping handed to
\* exec, fixed key or table variable name, contains a forbidden token, so
\* code that names an injected table passes the admission gate.
C14_NoForbiddenKey ==
    load.status = "loaded" =>
        /\ \A key \in TableNames :
              ~HasForbiddenToken(key) /\ ~UnsafeDetected(key)
        /\ \A key \in DOMAIN safe_globals : ~HasForbiddenToken(key)

\* C15: the variable names of the loaded sheets are distinct for distinct
\* (file stem, sheet name), there are as many table bindings as loaded sheets,
\* and every loaded table is still bound to its name.
C15_OneBindingPerTable ==
    load.status = "loaded" =>
        /\ \A p, q \in LoadedSheets :
              LET fp == excel_files[p[1]]
                  fq == excel_files[q[1]]
              IN <<stem(fp.filename), fp.sheets[p[2]].name>>
                     # <<stem(fq.filename), fq.sheets[q[2]].name>>
                 => var_name(fp, fp.sheets[p[2]].name)
                        # var_name(fq, fq.sheets[q[2]].name)
        /\ Cardinality(TableNames) = Cardinality(LoadedSheets)
        /\ \A p \in LoadedSheets :
              LET fp == excel_files[p[1]]
              IN safe_globals[var_name(fp, fp.sheets[p[2]].name)]
                     = DataFrame(fp.sheets[p[2]].rows)

\* the requests between the redirect of sys.stdout and its restore
InSection == {r \in Requests : handlers[r].at = "redirected"}

\* the requests whose code was executed
Executed ==
    {r \in Requests : handlers[r].at = "restored"
                         \/ (handlers[r].at = "done" /\ handlers[r].status # "403")}

\* C12: on every exit path of exec, normal return or exception, sys.stdout
\* after the call is the sink that was installed before the call, and the
\* capture buffer of a request is the sink only while its exec is running.
C12_CaptureScoped ==
    /\ \A r \in Requests :
          handlers[r].at = "restored" => sys_stdout = handlers[r].before
    /\ \A r \in Requests :
          sys_stdout = output_stream(r) => r \in InSection

\* a request whose code printed and then raised: the sink is restored
C12_Witness ==
    \E r \in Requests :
        /\ handlers[r].at = "restored"
        /\ handlers[r].exc # NoExc
        /\ handlers[r].captured # <<>>
        /\ sys_stdout = handlers[r].before

\* C13: whatever the interleaving of the requests, no two of them are inside
\* their redirect-exec-restore section at once, a request inside its section
\* has its own buffer installed, and the buffer of a request holds exactly
\* what its own code printed.
C13_SectionsSerialized ==
    /\ Cardinality(InSection) <= 1
    /\ \A r \in InSection : sys_stdout = output_stream(r) /\ loop = r
    /\ \A r \in Executed :
          handlers[r].captured = Exec(handlers[r].ai_code, BackendGlobals).stdout
    /\ \A r \in Requests \ Executed : handlers[r].captured = <<>>

\* one request is inside its section while another one, accepted before,
\* waits at its await
C13_Witness ==
    \E r, q \in Requests :
        /\ r # q
        /\ r \in InSection
        /\ handlers[q].at = "awaiting"

====
